---- MODULE Spec2Model ----
(***************************************************************************)
(* Model of the OPAQUE envelope (src/src/envelope.rs): seal, open,         *)
(* dummy, serialize and deserialize.                                       *)
(*                                                                         *)
(* Bytes.  Every value the code handles is a byte string, modelled as a    *)
(* sequence of bytes.  A byte is a record [t, v, a, b, i]:                 *)
(*   t = "lit"  : the concrete byte v (0..255);                            *)
(*   t = "hkdf" : byte i of HKDF-Expand with pseudorandom key a, info b;   *)
(*   t = "hmac" : byte i of HMAC with key a over message b;                *)
(*   t = "h2s"  : byte i of scalar_as_bytes(hash_to_scalar(a, dst = b));   *)
(*   t = "pub"  : byte i of the public key of the private scalar a.        *)
(* For the four derived kinds v is the xor-difference from the primitive's *)
(* output (0 unless a bit of the byte was flipped afterwards).             *)
(* The external primitives (hkdf, hmac, voprf group) are ideal: equal      *)
(* inputs give equal outputs, different inputs give different outputs, and *)
(* no output equals a literal byte string.  The length limit of            *)
(* HKDF-Expand (255 hash outputs) is never reached by the lengths the code *)
(* asks for, so HkdfError and HmacError do not occur.                      *)
(***************************************************************************)
EXTENDS Integers, Sequences, FiniteSets, TLC

(* ---------------- bounds of the model ---------------- *)
\* output size of CS::Hash in bytes (H)
OutputSize == 2
\* <CS::KeGroup as KeGroup>::PkLen
PkLen == 2
\* <CS::KeGroup as KeGroup>::SkLen
SkLen == 1
\* longest caller-supplied identity
MaxIdLen == 2

(* ---------------- program constants ---------------- *)
NonceLen == 32

Lit(n) == [t |-> "lit", v |-> n, a |-> <<>>, b |-> <<>>, i |-> 0]

\* byte k of the output of primitive t on the inputs a and b
Out(t, a, b, k) == [t |-> t, v |-> 0, a |-> a, b |-> b, i |-> k]

Lits(s) == [k \in 1..Len(s) |-> Lit(s[k])]

Zeros(n) == [k \in 1..n |-> Lit(0)]

STR_AUTH_KEY == Lits(<<65, 117, 116, 104, 75, 101, 121>>)

STR_EXPORT_KEY == Lits(<<69, 120, 112, 111, 114, 116, 75, 101, 121>>)

STR_PRIVATE_KEY == Lits(<<80, 114, 105, 118, 97, 116, 101, 75, 101, 121>>)

STR_OPAQUE_DERIVE_AUTH_KEY_PAIR ==
    Lits(<<79, 80, 65, 81, 85, 69, 45, 68, 101, 114, 105, 118, 101,
           65, 117, 116, 104, 75, 101, 121, 80, 97, 105, 114>>)

(* ---------------- byte-string helpers ---------------- *)
RECURSIVE Flatten(_)
\* the bytes an iterator of slices feeds to a streaming consumer
Flatten(parts) ==
    IF parts = <<>> THEN <<>> ELSE Head(parts) \o Flatten(Tail(parts))

Pow2(k) == 2 ^ k

\* flip bit k of the value v of a byte
FlipBit(v, k) ==
    IF (v \div Pow2(k)) % 2 = 1 THEN v - Pow2(k) ELSE v + Pow2(k)

FlipByte(byte, k) == [byte EXCEPT !.v = FlipBit(@, k)]

(* ---------------- external primitives (ideal) ---------------- *)
\* Hkdf::expand(info, okm) on a handle whose pseudorandom key is prk
Expand(prk, info, len) ==
    [k \in 1..len |-> Out("hkdf", prk, info, k)]

\* Hkdf::expand_multi_info(infos, okm): the info components are fed in order
ExpandMultiInfo(prk, infos, len) == Expand(prk, Flatten(infos), len)

\* Hmac::new_from_slice(key); update(..)*; finalize()
HmacFinalize(key, msg) ==
    [k \in 1..OutputSize |-> Out("hmac", key, msg, k)]

\* variant: only the first byte of the tag is compared
HmacVerifyFirstByte(key, msg, tag) ==
    /\ tag # <<>>
    /\ HmacFinalize(key, msg)[1] = tag[1]

\* Hmac::verify(tag): equality of the computed tag and the given one
HmacVerify(key, msg, tag) == HmacFinalize(key, msg) = tag

\* scalar_as_bytes(hash_to_scalar(input, dst))
HashToScalarBytes(input, dst) ==
    [k \in 1..SkLen |-> Out("h2s", Flatten(input), dst, k)]

\* KeyPair::from_private_key_slice
KeyPairFromPrivateKeySlice(sk) ==
    [private |-> sk,
     public |-> [k \in 1..PkLen |-> Out("pub", sk, <<>>, k)]]

(* ---------------- identities ---------------- *)
None == [some |-> FALSE, val |-> <<>>]

Some(x) == [some |-> TRUE, val |-> x]

\* big-endian encoding of n on two bytes (the U2 length prefix of Serialize)
I2osp2(n) == <<Lit(n \div 256), Lit(n % 256)>>

\* Serialize<U2, _>::iter(): the two-byte length, then the data
SerializeIter(data) == <<I2osp2(Len(data)), data>>

\* bytestrings_from_identifiers: a caller-supplied identity, or else the
\* public key bytes; returns (id_u, id_s)
bytestrings_from_identifiers(ids, client_s_pk, server_s_pk) ==
    [id_u |-> IF ids.client.some THEN ids.client.val ELSE client_s_pk,
     id_s |-> IF ids.server.some THEN ids.server.val ELSE server_s_pk]

(* ---------------- envelope.rs ---------------- *)
\* variant: the client identity before the server identity
construct_aad_client_first(id_u, id_s, server_s_pk) ==
    <<server_s_pk>> \o id_u \o id_s

\* the iterator [server_s_pk], then id_s, then id_u
construct_aad(id_u, id_s, server_s_pk) == <<server_s_pk>> \o id_s \o id_u

build_inner_envelope_internal(prk, nonce) ==
    LET keypair_seed == Expand(prk, nonce \o STR_PRIVATE_KEY, SkLen)
        client_static_keypair ==
            KeyPairFromPrivateKeySlice(
                HashToScalarBytes(<<keypair_seed>>,
                                  STR_OPAQUE_DERIVE_AUTH_KEY_PAIR))
    IN  client_static_keypair.public

recover_keys_internal(prk, nonce) ==
    LET keypair_seed == Expand(prk, nonce \o STR_PRIVATE_KEY, SkLen)
        client_static_keypair ==
            KeyPairFromPrivateKeySlice(
                HashToScalarBytes(<<keypair_seed>>,
                                  STR_OPAQUE_DERIVE_AUTH_KEY_PAIR))
    IN  client_static_keypair

NoKeyPair == [private |-> <<>>, public |-> <<>>]

NoEnvelope == [mode |-> "None", nonce |-> <<>>, hmac |-> <<>>]

\* variant: the label before the nonce in the info of the two keys
seal_raw_label_first(prk, nonce, aad, mode) ==
    LET hmac_key == ExpandMultiInfo(prk, <<STR_AUTH_KEY, nonce>>, OutputSize)
        export_key ==
            ExpandMultiInfo(prk, <<STR_EXPORT_KEY, nonce>>, OutputSize)
        hmac_bytes == HmacFinalize(hmac_key, nonce \o Flatten(aad))
    IN  [envelope |-> [mode |-> mode, nonce |-> nonce, hmac |-> hmac_bytes],
         export_key |-> export_key,
         hmac_key |-> hmac_key]

\* Envelope::seal_raw: (envelope, export_key, hmac_key)
seal_raw(prk, nonce, aad, mode) ==
    LET hmac_key == ExpandMultiInfo(prk, <<nonce, STR_AUTH_KEY>>, OutputSize)
        export_key ==
            ExpandMultiInfo(prk, <<nonce, STR_EXPORT_KEY>>, OutputSize)
        hmac_bytes == HmacFinalize(hmac_key, nonce \o Flatten(aad))
    IN  [envelope |-> [mode |-> mode, nonce |-> nonce, hmac |-> hmac_bytes],
         export_key |-> export_key,
         hmac_key |-> hmac_key]

\* Envelope::seal, with the nonce the rng produced
seal(nonce, prk, server_s_pk, ids) ==
    LET mode == "Internal"
        client_s_pk == build_inner_envelope_internal(prk, nonce)
        bs == bytestrings_from_identifiers(ids, client_s_pk, server_s_pk)
        aad == construct_aad(SerializeIter(bs.id_u), SerializeIter(bs.id_s),
                             server_s_pk)
        result == seal_raw(prk, nonce, aad, mode)
    IN  [envelope |-> result.envelope,
         client_s_pk |-> client_s_pk,
         export_key |-> result.export_key,
         hmac_key |-> result.hmac_key]

\* variant: the nonce is not fed to the MAC
open_raw_no_nonce(self, prk, aad) ==
    LET hmac_key == Expand(prk, self.nonce \o STR_AUTH_KEY, OutputSize)
        export_key == Expand(prk, self.nonce \o STR_EXPORT_KEY, OutputSize)
    IN  IF HmacVerify(hmac_key, Flatten(aad), self.hmac)
        THEN [ok |-> TRUE, err |-> "", export_key |-> export_key,
              hmac_key |-> hmac_key, derived_export_key |-> export_key]
        ELSE [ok |-> FALSE, err |-> "SealOpenHmacError", export_key |-> <<>>,
              hmac_key |-> hmac_key, derived_export_key |-> export_key]

\* variant: the result of the verification is dropped
open_raw_unverified(self, prk, aad) ==
    LET hmac_key == Expand(prk, self.nonce \o STR_AUTH_KEY, OutputSize)
        export_key == Expand(prk, self.nonce \o STR_EXPORT_KEY, OutputSize)
    IN  [ok |-> TRUE, err |-> "", export_key |-> export_key,
         hmac_key |-> hmac_key, derived_export_key |-> export_key]

\* variant: an all-zero tag counts as "no tag" and is not verified
open_raw_zero_tag_ok(self, prk, aad) ==
    LET hmac_key == Expand(prk, self.nonce \o STR_AUTH_KEY, OutputSize)
        export_key == Expand(prk, self.nonce \o STR_EXPORT_KEY, OutputSize)
    IN  IF \/ self.hmac = Zeros(OutputSize)
           \/ HmacVerify(hmac_key, self.nonce \o Flatten(aad), self.hmac)
        THEN [ok |-> TRUE, err |-> "", export_key |-> export_key,
              hmac_key |-> hmac_key, derived_export_key |-> export_key]
        ELSE [ok |-> FALSE, err |-> "SealOpenHmacError", export_key |-> <<>>,
              hmac_key |-> hmac_key, derived_export_key |-> export_key]

\* Envelope::open_raw; hmac_key and derived_export_key record the two keys
\* the call derived, export_key is what it returns
open_raw(self, prk, aad) ==
    LET hmac_key == Expand(prk, self.nonce \o STR_AUTH_KEY, OutputSize)
        export_key == Expand(prk, self.nonce \o STR_EXPORT_KEY, OutputSize)
    IN  IF HmacVerify(hmac_key, self.nonce \o Flatten(aad), self.hmac)
        THEN [ok |-> TRUE, err |-> "", export_key |-> export_key,
              hmac_key |-> hmac_key, derived_export_key |-> export_key]
        ELSE [ok |-> FALSE, err |-> "SealOpenHmacError", export_key |-> <<>>,
              hmac_key |-> hmac_key, derived_export_key |-> export_key]

AllSteps ==
    <<"recover_keys_internal", "bytestrings_from_identifiers",
      "construct_aad", "open_raw">>

NoDerived == [keypair |-> NoKeyPair, hmac_key |-> <<>>, export_key |-> <<>>]

\* the Err(..) of open: nothing but the error reaches the caller; derived
\* records what the call had computed when it returned
OpenErr(e, steps, derived) ==
    [ok |-> FALSE, err |-> e, client_static_keypair |-> NoKeyPair,
     export_key |-> <<>>, id_u |-> <<>>, id_s |-> <<>>, steps |-> steps,
     derived |-> derived]

\* variant: the mode of the envelope is not looked at
open_mode_unchecked(self, prk, server_s_pk, optional_ids) ==
    LET client_static_keypair == recover_keys_internal(prk, self.nonce)
        bs == bytestrings_from_identifiers(
                  optional_ids, client_static_keypair.public, server_s_pk)
        aad == construct_aad(SerializeIter(bs.id_u), SerializeIter(bs.id_s),
                             server_s_pk)
        opened == open_raw(self, prk, aad)
        derived == [keypair |-> client_static_keypair,
                    hmac_key |-> opened.hmac_key,
                    export_key |-> opened.derived_export_key]
    IN  IF opened.ok
        THEN [ok |-> TRUE, err |-> "",
              client_static_keypair |-> client_static_keypair,
              export_key |-> opened.export_key,
              id_u |-> bs.id_u, id_s |-> bs.id_s, steps |-> AllSteps,
              derived |-> derived]
        ELSE OpenErr(opened.err, AllSteps, derived)

\* Envelope::open; steps lists the calls made before returning
open(self, prk, server_s_pk, optional_ids) ==
    IF self.mode = "Zero"
    THEN OpenErr("IncompatibleEnvelopeModeError", <<>>, NoDerived)
    ELSE LET client_static_keypair == recover_keys_internal(prk, self.nonce)
             bs == bytestrings_from_identifiers(
                       optional_ids, client_static_keypair.public,
                       server_s_pk)
             aad == construct_aad(SerializeIter(bs.id_u),
                                  SerializeIter(bs.id_s), server_s_pk)
             opened == open_raw(self, prk, aad)
             derived == [keypair |-> client_static_keypair,
                         hmac_key |-> opened.hmac_key,
                         export_key |-> opened.derived_export_key]
         IN  IF opened.ok
             THEN [ok |-> TRUE, err |-> "",
                   client_static_keypair |-> client_static_keypair,
                   export_key |-> opened.export_key,
                   id_u |-> bs.id_u, id_s |-> bs.id_s, steps |-> AllSteps,
                   derived |-> derived]
             ELSE OpenErr(opened.err, AllSteps, derived)

\* open with the two identity iterators exchanged when the associated data
\* is rebuilt (the order-sensitivity test seam)
open_swapped(self, prk, server_s_pk, optional_ids) ==
    IF self.mode = "Zero"
    THEN OpenErr("IncompatibleEnvelopeModeError", <<>>, NoDerived)
    ELSE LET client_static_keypair == recover_keys_internal(prk, self.nonce)
             bs == bytestrings_from_identifiers(
                       optional_ids, client_static_keypair.public,
                       server_s_pk)
             aad == construct_aad(SerializeIter(bs.id_s),
                                  SerializeIter(bs.id_u), server_s_pk)
             opened == open_raw(self, prk, aad)
             derived == [keypair |-> client_static_keypair,
                         hmac_key |-> opened.hmac_key,
                         export_key |-> opened.derived_export_key]
         IN  IF opened.ok
             THEN [ok |-> TRUE, err |-> "",
                   client_static_keypair |-> client_static_keypair,
                   export_key |-> opened.export_key,
                   id_u |-> bs.id_u, id_s |-> bs.id_s, steps |-> AllSteps,
                   derived |-> derived]
             ELSE OpenErr(opened.err, AllSteps, derived)

\* Envelope::dummy
dummy == [mode |-> "Zero", nonce |-> Zeros(NonceLen),
          hmac |-> Zeros(OutputSize)]

hmac_key_size == OutputSize

\* Envelope::len
len == OutputSize + NonceLen

\* variant: the mode is written in front of the nonce
serialize_with_mode(self) ==
    <<Lit(IF self.mode = "Zero" THEN 0 ELSE 1)>> \o self.nonce \o self.hmac

\* Envelope::serialize
serialize(self) == self.nonce \o self.hmac

\* check_slice_size: the slice, or an error when its length is not expected
check_slice_size(slice, expected) ==
    IF Len(slice) # expected
    THEN [ok |-> FALSE, err |-> "SerializationError", slice |-> <<>>]
    ELSE [ok |-> TRUE, err |-> "", slice |-> slice]

\* variant: the length of the remainder is not checked
deserialize_unsized(bytes) ==
    IF Len(bytes) < NonceLen
    THEN [ok |-> FALSE, err |-> "SerializationError", envelope |-> NoEnvelope]
    ELSE [ok |-> TRUE, err |-> "",
          envelope |-> [mode |-> "Internal",
                        nonce |-> SubSeq(bytes, 1, NonceLen),
                        hmac |-> SubSeq(bytes, NonceLen + 1, Len(bytes))]]

\* variant: all-zero bytes are read back as a Zero-mode envelope
deserialize_mode_from_bytes(bytes) ==
    IF Len(bytes) < NonceLen
    THEN [ok |-> FALSE, err |-> "SerializationError", envelope |-> NoEnvelope]
    ELSE LET nonce == SubSeq(bytes, 1, NonceLen)
             remainder == SubSeq(bytes, NonceLen + 1, Len(bytes))
             hmac == check_slice_size(remainder, hmac_key_size)
             mode == IF bytes = Zeros(Len(bytes)) THEN "Zero" ELSE "Internal"
         IN  IF ~hmac.ok
             THEN [ok |-> FALSE, err |-> hmac.err, envelope |-> NoEnvelope]
             ELSE [ok |-> TRUE, err |-> "",
                   envelope |-> [mode |-> mode, nonce |-> nonce,
                                 hmac |-> hmac.slice]]

\* Envelope::deserialize
deserialize(bytes) ==
    LET mode == "Internal"
    IN  IF Len(bytes) < NonceLen
        THEN [ok |-> FALSE, err |-> "SerializationError",
              envelope |-> NoEnvelope]
        ELSE LET nonce == SubSeq(bytes, 1, NonceLen)
                 remainder == SubSeq(bytes, NonceLen + 1, Len(bytes))
                 hmac == check_slice_size(remainder, hmac_key_size)
             IN  IF mode = "Zero"
                 THEN [ok |-> FALSE, err |-> "IncompatibleEnvelopeModeError",
                       envelope |-> NoEnvelope]
                 ELSE IF ~hmac.ok
                 THEN [ok |-> FALSE, err |-> hmac.err, envelope |-> NoEnvelope]
                 ELSE [ok |-> TRUE, err |-> "",
                       envelope |-> [mode |-> mode, nonce |-> nonce,
                                     hmac |-> hmac.slice]]

(* ---------------- the state machine ---------------- *)
\* One behaviour is one scenario: an envelope is made (seal or dummy), may
\* be stored (serialize), changed in storage, loaded again (deserialize),
\* and is finally opened.
VARIABLES
    stage,    \* "start", "made", "stored", "loaded", "done"
    env,      \* the envelope held in memory (NoEnvelope before any is made)
    wire,     \* the stored bytes of an envelope
    sealed,   \* the inputs and results of the call to seal
    deser,    \* the input and result of the last call to deserialize
    opened,   \* the inputs and result of the call to open (on env)
    tampered  \* whether the stored bytes were changed

vars == <<stage, env, wire, sealed, deser, opened, tampered>>

\* pseudorandom keys of the randomized password hashers
Handles == {[k \in 1..OutputSize |-> Lit(h)] : h \in {1, 2}}

\* values the rng can return; the second is 0x00..1F
Nonces == {Zeros(NonceLen), [k \in 1..NonceLen |-> Lit(k - 1)]}

ServerKeys == {[k \in 1..PkLen |-> Lit(h)] : h \in {1, 7}}

IdOptions == {None} \cup {Some([k \in 1..n |-> Lit(1)]) : n \in 1..MaxIdLen}

Identifiers == [client : IdOptions, server : IdOptions]

\* byte positions of the stored envelope that may be changed: the first
\* and last byte of the nonce and of the mac
TamperPos == {1, NonceLen, NonceLen + 1, NonceLen + OutputSize}

TamperBits == {0, 7}

\* lengths the stored bytes may be cut or zero-padded to
ResizeLens == {0, NonceLen - 1, NonceLen, NonceLen + OutputSize - 1,
               NonceLen + OutputSize + 1}

NotSealed ==
    [done |-> FALSE, prk |-> <<>>, server_s_pk |-> <<>>,
     ids |-> [client |-> None, server |-> None], envelope |-> NoEnvelope,
     client_s_pk |-> <<>>, export_key |-> <<>>, hmac_key |-> <<>>]

NotDeserialized ==
    [done |-> FALSE, bytes |-> <<>>, ok |-> FALSE, err |-> "",
     envelope |-> NoEnvelope]

NotOpened ==
    [done |-> FALSE, swapped |-> FALSE, prk |-> <<>>,
     server_s_pk |-> <<>>, ids |-> [client |-> None, server |-> None],
     res |-> OpenErr("", <<>>, NoDerived)]

Init ==
    /\ stage = "start"
    /\ env = NoEnvelope
    /\ wire = <<>>
    /\ sealed = NotSealed
    /\ deser = NotDeserialized
    /\ opened = NotOpened
    /\ tampered = FALSE

Seal ==
    \E nonce \in Nonces, prk \in Handles, spk \in ServerKeys,
       ids \in Identifiers :
        /\ stage = "start"
        /\ stage' = "made"
        /\ LET r == seal(nonce, prk, spk, ids)
           IN  /\ env' = r.envelope
               /\ sealed' = [done |-> TRUE, prk |-> prk,
                             server_s_pk |-> spk, ids |-> ids,
                             envelope |-> r.envelope,
                             client_s_pk |-> r.client_s_pk,
                             export_key |-> r.export_key,
                             hmac_key |-> r.hmac_key]
        /\ UNCHANGED <<wire, deser, opened, tampered>>

Dummy ==
    /\ stage = "start"
    /\ stage' = "made"
    /\ env' = dummy
    /\ UNCHANGED <<wire, sealed, deser, opened, tampered>>

Serialize ==
    /\ stage \in {"made", "loaded"}
    /\ stage' = "stored"
    /\ wire' = serialize(env)
    /\ UNCHANGED <<env, sealed, deser, opened, tampered>>

Deserialize ==
    /\ stage = "stored"
    /\ stage' = "loaded"
    /\ LET r == deserialize(wire)
       IN  /\ deser' = [done |-> TRUE, bytes |-> wire, ok |-> r.ok,
                        err |-> r.err, envelope |-> r.envelope]
           /\ env' = IF r.ok THEN r.envelope ELSE env
    /\ UNCHANGED <<wire, sealed, opened, tampered>>

\* a bit of the stored bytes is flipped
Tamper ==
    \E p \in TamperPos, k \in TamperBits :
        /\ stage = "stored"
        /\ ~tampered
        /\ p <= Len(wire)
        /\ wire' = [wire EXCEPT ![p] = FlipByte(@, k)]
        /\ tampered' = TRUE
        /\ UNCHANGED <<stage, env, sealed, deser, opened>>

\* the stored bytes are cut, or padded with zero bytes
Resize ==
    \E n \in ResizeLens :
        /\ stage = "stored"
        /\ ~tampered
        /\ n # Len(wire)
        /\ wire' = [k \in 1..n |-> IF k <= Len(wire) THEN wire[k] ELSE Lit(0)]
        /\ tampered' = TRUE
        /\ UNCHANGED <<stage, env, sealed, deser, opened>>

Open ==
    \E prk \in Handles, spk \in ServerKeys, ids \in Identifiers :
        /\ stage \in {"made", "loaded"}
        /\ stage' = "done"
        /\ opened' = [done |-> TRUE, swapped |-> FALSE,
                      prk |-> prk, server_s_pk |-> spk, ids |-> ids,
                      res |-> open(env, prk, spk, ids)]
        /\ UNCHANGED <<env, wire, sealed, deser, tampered>>

OpenSwapped ==
    \E prk \in Handles, spk \in ServerKeys, ids \in Identifiers :
        /\ stage = "made"
        /\ stage' = "done"
        /\ opened' = [done |-> TRUE, swapped |-> TRUE,
                      prk |-> prk, server_s_pk |-> spk, ids |-> ids,
                      res |-> open_swapped(env, prk, spk, ids)]
        /\ UNCHANGED <<env, wire, sealed, deser, tampered>>

Next ==
    \/ Seal
    \/ Dummy
    \/ Serialize
    \/ Deserialize
    \/ Tamper
    \/ Open
    \/ OpenSwapped

Spec == Init /\ [][Next]_vars

\* the storage scenarios: no open, but the stored bytes may change length
NextWire ==
    \/ Seal
    \/ Dummy
    \/ Serialize
    \/ Deserialize
    \/ Tamper
    \/ Resize

SpecWire == Init /\ [][NextWire]_vars

(* ---------------- properties ---------------- *)
\* open was called with the inputs seal was called with
SameInputs ==
    /\ opened.prk = sealed.prk
    /\ opened.server_s_pk = sealed.server_s_pk
    /\ opened.ids = sealed.ids

\* open (not the seam) has returned, on an envelope seal made
OpenedSealed == sealed.done /\ opened.done /\ ~opened.swapped

AllZero == [mode |-> "Internal", nonce |-> Zeros(NonceLen),
            hmac |-> Zeros(OutputSize)]

\* C1: round trip.  open on the envelope seal returned, with the same
\* secret handle, server public key and identities, succeeds and returns
\* the key pair whose public half is the one seal returned, and the same
\* export key.
C1_RoundTrip ==
    (OpenedSealed /\ env = sealed.envelope /\ SameInputs)
        => /\ opened.res.ok
           /\ opened.res.client_static_keypair.public = sealed.client_s_pk
           /\ opened.res.export_key = sealed.export_key

C1_Witness ==
    /\ OpenedSealed /\ env = sealed.envelope /\ SameInputs
    /\ deser.done
    /\ opened.ids.client = None /\ opened.ids.server # None
    /\ opened.res.ok

\* C2: tamper sensitivity.  With the inputs of seal, open on the sealed
\* envelope with a changed mac fails with SealOpenHmacError; with a changed
\* nonce it fails with SealOpenHmacError or returns another key pair, and
\* never returns the original key pair and export key.
C2_Tamper ==
    (OpenedSealed /\ SameInputs)
        => /\ (env.nonce = sealed.envelope.nonce
                 /\ env.hmac # sealed.envelope.hmac)
                => (~opened.res.ok /\ opened.res.err = "SealOpenHmacError")
           /\ (env.nonce # sealed.envelope.nonce)
                => /\ \/ ~opened.res.ok
                         /\ opened.res.err = "SealOpenHmacError"
                      \/ opened.res.ok
                         /\ opened.res.client_static_keypair.public
                                # sealed.client_s_pk
                   /\ ~(/\ opened.res.ok
                        /\ opened.res.client_static_keypair.public
                               = sealed.client_s_pk
                        /\ opened.res.export_key = sealed.export_key)

C2_Witness ==
    /\ OpenedSealed /\ SameInputs /\ tampered
    /\ env.nonce = sealed.envelope.nonce
    /\ env.hmac[OutputSize] # sealed.envelope.hmac[OutputSize]
    /\ opened.res.err = "SealOpenHmacError"

C2_WitnessNonce ==
    /\ OpenedSealed /\ SameInputs /\ tampered
    /\ env.nonce # sealed.envelope.nonce
    /\ env.hmac = sealed.envelope.hmac
    /\ opened.res.err = "SealOpenHmacError"

\* C3: wrong secret.  open on the sealed envelope with another secret
\* handle fails with SealOpenHmacError, and the caller gets neither the key
\* pair nor the export key the failed call derived.
C3_WrongSecret ==
    (OpenedSealed /\ env = sealed.envelope /\ opened.prk # sealed.prk)
        => /\ ~opened.res.ok
           /\ opened.res.err = "SealOpenHmacError"
           /\ opened.res.client_static_keypair = NoKeyPair
           /\ opened.res.export_key = <<>>

C3_Witness ==
    /\ OpenedSealed /\ env = sealed.envelope /\ opened.prk # sealed.prk
    /\ opened.server_s_pk = sealed.server_s_pk /\ opened.ids = sealed.ids
    /\ opened.res.err = "SealOpenHmacError"
    /\ opened.res.derived.export_key # <<>>
    /\ opened.res.derived.keypair # NoKeyPair

\* C4: dummy rejection.  open on dummy() fails with
\* IncompatibleEnvelopeModeError whatever the inputs, before any key pair
\* is derived, any identity resolved or any MAC computed.
C4_DummyRejected ==
    (opened.done /\ env = dummy)
        => /\ ~opened.res.ok
           /\ opened.res.err = "IncompatibleEnvelopeModeError"
           /\ opened.res.steps = <<>>
           /\ opened.res.derived = NoDerived

C4_Witness ==
    /\ opened.done /\ ~opened.swapped /\ env = dummy
    /\ opened.ids.client # None
    /\ opened.res.err = "IncompatibleEnvelopeModeError"

\* C5 as stated: every failure of open is the one authentication failure.
C5_Uniform ==
    (opened.done /\ ~opened.swapped /\ ~opened.res.ok)
        => opened.res.err = "SealOpenHmacError"

\* C5 as amended: a failed open on an envelope that seal or deserialize
\* made (wrong secret, changed bytes, other identities, the stored dummy)
\* is SealOpenHmacError; a failed open on the dummy() value itself is
\* IncompatibleEnvelopeModeError.
C5_UniformInternal ==
    (opened.done /\ ~opened.swapped /\ ~opened.res.ok)
        => IF sealed.done \/ (deser.done /\ deser.ok)
           THEN opened.res.err = "SealOpenHmacError"
           ELSE opened.res.err = "IncompatibleEnvelopeModeError"

C5_Witness ==
    /\ opened.done /\ ~opened.swapped /\ ~sealed.done
    /\ deser.done /\ deser.ok /\ env = AllZero
    /\ opened.res.err = "SealOpenHmacError"

C5_WitnessIds ==
    /\ OpenedSealed /\ env = sealed.envelope
    /\ opened.prk = sealed.prk /\ opened.server_s_pk = sealed.server_s_pk
    /\ opened.ids # sealed.ids
    /\ opened.res.err = "SealOpenHmacError"

\* C6: fixed length.  The bytes serialize returns are the 32-byte nonce
\* followed by the H-byte mac, 32 + H bytes in all, for every sealed
\* envelope and for dummy(); the mode is not part of them.
C6_FixedLength ==
    /\ (stage = "stored" /\ ~tampered)
          => /\ Len(wire) = 32 + OutputSize
             /\ Len(wire) = len
             /\ \A k \in 1..32 : wire[k] = env.nonce[k]
             /\ \A k \in 1..OutputSize : wire[32 + k] = env.hmac[k]
    /\ Len(serialize(dummy)) = 32 + OutputSize
    /\ (stage = "stored" /\ ~tampered /\ sealed.done)
          => Len(wire) = Len(serialize(dummy))

C6_Witness ==
    /\ stage = "stored" /\ ~tampered /\ sealed.done /\ ~deser.done
    /\ sealed.ids.client = None
    /\ sealed.ids.server = Some(<<Lit(1), Lit(1)>>)
    /\ Len(wire) = 32 + OutputSize

\* C7: deserialize.  An input shorter than 32 bytes, or whose remainder
\* after 32 bytes is not H bytes long, gives SerializationError; an input
\* of 32 + H bytes gives the envelope with the first 32 bytes as nonce, the
\* rest as mac and mode Internal.  No input gives a Zero-mode envelope, and
\* the bytes of serialize give back the nonce and mac of the envelope.
C7_Deserialize ==
    deser.done =>
        /\ Len(deser.bytes) < 32
              => (~deser.ok /\ deser.err = "SerializationError")
        /\ (Len(deser.bytes) >= 32 /\ Len(deser.bytes) - 32 # OutputSize)
              => (~deser.ok /\ deser.err = "SerializationError")
        /\ Len(deser.bytes) = 32 + OutputSize
              => /\ deser.ok
                 /\ deser.envelope.mode = "Internal"
                 /\ deser.envelope.nonce = SubSeq(deser.bytes, 1, 32)
                 /\ deser.envelope.hmac
                        = SubSeq(deser.bytes, 33, 32 + OutputSize)
        /\ deser.envelope.mode # "Zero"
        /\ ~tampered
              => /\ deser.ok
                 /\ LET e == IF sealed.done THEN sealed.envelope ELSE dummy
                    IN  /\ deser.envelope.nonce = e.nonce
                        /\ deser.envelope.hmac = e.hmac

C7_Witness ==
    /\ deser.done /\ tampered
    /\ Len(deser.bytes) = 32 + OutputSize + 1
    /\ deser.err = "SerializationError"
    /\ env = dummy

C7_WitnessShort ==
    deser.done /\ Len(deser.bytes) = 31 /\ deser.err = "SerializationError"

C7_WitnessOk ==
    /\ deser.done /\ deser.ok /\ ~tampered /\ sealed.done
    /\ env = sealed.envelope

\* the identities open and seal authenticate
IdU(ids, client_s_pk) == IF ids.client.some THEN ids.client.val ELSE client_s_pk

IdS(ids, server_s_pk) == IF ids.server.some THEN ids.server.val ELSE server_s_pk

\* the message under the MAC: nonce, server public key, server identity,
\* client identity (each identity after its two-byte length)
MacMessage(nonce, server_s_pk, id_s, id_u) ==
    nonce \o server_s_pk \o I2osp2(Len(id_s)) \o id_s
          \o I2osp2(Len(id_u)) \o id_u

C9_Derivation ==
    (/\ sealed.done /\ opened.done /\ opened.res.steps # <<>>
     /\ opened.prk = sealed.prk /\ env.nonce = sealed.envelope.nonce)
        => /\ opened.res.derived.hmac_key = sealed.hmac_key
           /\ opened.res.derived.export_key = sealed.export_key
           /\ opened.res.derived.keypair.public = sealed.client_s_pk
           /\ Len(sealed.hmac_key) = OutputSize
           /\ Len(sealed.export_key) = OutputSize

C9_Witness ==
    /\ sealed.done /\ opened.done /\ ~opened.swapped
    /\ opened.prk = sealed.prk /\ env.nonce = sealed.envelope.nonce
    /\ opened.server_s_pk # sealed.server_s_pk
    /\ ~opened.res.ok
    /\ opened.res.derived.hmac_key = sealed.hmac_key

\* C10: the dummy envelope is never opened.  open on the all-zero envelope
\* never succeeds, neither on dummy() itself nor on what deserialize makes
\* of its stored bytes (mode Internal, so the MAC is verified).
C10_DummyNeverOpened ==
    (/\ opened.done /\ env.nonce = Zeros(NonceLen)
     /\ env.hmac = Zeros(OutputSize))
        => /\ ~opened.res.ok
           /\ env.mode = "Internal"
                 => /\ opened.res.err = "SealOpenHmacError"
                    /\ opened.res.steps = AllSteps

C10_Witness ==
    /\ opened.done /\ ~opened.swapped /\ deser.done /\ deser.ok
    /\ ~sealed.done
    /\ env = AllZero
    /\ opened.res.steps = AllSteps
    /\ ~opened.res.ok

====
